---- MODULE Spec2Model ----
(***************************************************************************)
(* Model of the iotedged orchestration kernel:                             *)
(*   - edgelet-http/src/version.rs      (Version parse / render)           *)
(*   - edgelet-http/src/route/mod.rs    (RouterService::call)              *)
(*   - iotedged/src/lib.rs              (run_until, check_settings_state,  *)
(*                                       reconfigure, start_api, build_env)*)
(* Three specifications share the module: SpecEnv (build_env as a pure     *)
(* function), SpecRouter (one router service serving requests) and Spec    *)
(* (the boot pipeline over a persistent cache directory).                  *)
(***************************************************************************)
EXTENDS Integers, Sequences, FiniteSets, TLC

VARIABLES
    \* ---- build_env (lib.rs:500-534)
    envArgs,        \* the arguments of the build_env call
    envPc,          \* "idle" | "ready" | "done"
    env,            \* the returned HashMap, empty before the call
    \* ---- RouterService::call (route/mod.rs:157-195)
    req,            \* the request being served, NoReq between requests
    rpc,            \* "idle" | "called" | "pending" | "replied"
    reply,          \* the result of the future call returned
    recognizeCalls, \* calls of Recognizer::recognize made for this request
    handlerCalls,   \* Handler::handle invocations made for this request
    lastRecognize,  \* the arguments of the last recognize call
    lastParams,     \* the params handed to the handler
    handlerResult,  \* what the handler's future resolved to
    \* ---- Main::run_until and what it calls (lib.rs:175-368)
    pc,             \* the position of the boot pipeline, "off" when no daemon runs
    boots,          \* boots started so far
    settings,       \* the Settings of the current boot
    signal,         \* the external shutdown signal: "pending" | "fired"
    result,         \* what run_until returned: "none" | "ok" | "err"
    dir,            \* whether <homedir>/cache exists
    files,          \* the content of each file of <homedir>/cache, NoFile when absent
    pre,            \* the cache and the last guard run, as check_settings_state found them
    guardResult,    \* what check_settings_state returned in this boot
    lastGuard,      \* the settings and outcome of the last completed guard run
    removeAllCalls, \* calls of runtime.remove_all in this boot
    createKeyCalls, \* calls of crypto.create_key in this boot
    fsWrites,       \* changes the guard made to the cache directory in this boot
    rmOutcome,      \* how fs::remove_dir_all ended: "none" | "removed" | "absent" | "failed"
    keyOutcome,     \* how crypto.create_key ended: "none" | "ok" | "exists" | "err"
    provResult,     \* the ProvisioningResult of this boot, NoResult before
    mgmt,           \* management launcher: "none" | "bound" | "ok" | "err"
    work,           \* workload launcher:   "none" | "bound" | "ok" | "err"
    rt,             \* watchdog future: "none" | "created" | "running" | "restarting" |
                    \* "ok" | "err"
    mgmtTx,         \* oneshot senders: "none" | "open" | "sent" | "send_failed" | "dropped"
    workTx,
    runtTx,
    shutdownTask,   \* the spawned shutdown listener: "none" | "spawned" | "done"
    joinResult,     \* what core.run(join3) returned: "none" | "ok" | "err"
    registration,   \* the registration call of dps_provision: "none" | "ok" | "err"
    \* ---- Builder::get/post/put/delete (route/mod.rs:70-100)
    routes,         \* the routes handed to Builder::route so far
    builderPc,      \* "building" | "panicked" | "finished"
    lastRoute,      \* the arguments of the last get/post/put/delete call
    \* ---- vol_mount_uri (lib.rs:474-497)
    mountArgs,      \* the create options and the uris of the call
    mountPc,        \* "idle" | "ready" | "done" | "failed"
    config          \* the DockerConfig's create options

envVars    == <<envArgs, envPc, env>>
routerVars == <<req, rpc, reply, recognizeCalls, handlerCalls, lastRecognize, lastParams,
                handlerResult>>
fsVars     == <<dir, files>>
guardVars  == <<pre, guardResult, lastGuard, removeAllCalls, createKeyCalls, fsWrites,
                rmOutcome, keyOutcome>>
apiVars    == <<mgmt, work, rt, mgmtTx, workTx, runtTx, shutdownTask, joinResult>>
provVars   == <<provResult, registration>>
bootVars   == <<pc, boots, settings, signal, result, provVars, fsVars, guardVars, apiVars>>
builderVars == <<routes, builderPc, lastRoute>>
mountVars  == <<mountArgs, mountPc, config>>
otherVars  == <<envVars, routerVars, builderVars, mountVars>>
vars       == <<envVars, routerVars, builderVars, mountVars, bootVars>>

-----------------------------------------------------------------------------
(* Bounds of the model *)

\* at most this many boots of the daemon over one cache directory
MaxBoots == 2

\* at most this many entries in the user-supplied agent env
MaxUserEnv == 2
\* at most this many key=value pairs in a request's query string
MaxQuery == 2
\* at most this many routes registered with one builder
MaxRoutes == 2
\* at most this many binds configured in the agent's create options
MaxBinds == 2

-----------------------------------------------------------------------------
(* edgelet-http/src/version.rs *)

Version == {"Version2018_06_28", "Version2018_12_30"}

API_VERSION == "Version2018_12_30"

\* mutant: the enumeration declared newest first
VersionDiscriminant_NewestFirst(v) ==
    CASE v = "Version2018_12_30" -> 0
      [] v = "Version2018_06_28" -> 1

\* the position of a variant in the declaration of the enum
VersionDiscriminant(v) ==
    CASE v = "Version2018_06_28" -> 0
      [] v = "Version2018_12_30" -> 1

\* #[derive(PartialOrd)] on a field-less enum: variants compare by declaration order
partial_cmp(a, b) ==
    IF VersionDiscriminant(a) < VersionDiscriminant(b) THEN "Less"
    ELSE IF VersionDiscriminant(a) = VersionDiscriminant(b) THEN "Equal"
    ELSE "Greater"

\* Result values
Ok(v)  == [ok |-> TRUE, val |-> v]
Err(e) == [ok |-> FALSE, err |-> e]

\* Option values
None    == [some |-> FALSE]
Some(v) == [some |-> TRUE, val |-> v]

\* impl FromStr for Version
VersionFromStr(s) ==
    CASE s = "2018-06-28" -> Ok("Version2018_06_28")
      [] s = "2018-12-30" -> Ok("Version2018_12_30")
      [] OTHER            -> Err("()")

\* mutant: every version is rendered as the current one
VersionToString_AlwaysCurrent(v) ==
    CASE v = "Version2018_06_28" -> "2018-12-30"
      [] v = "Version2018_12_30" -> "2018-12-30"

\* impl fmt::Display for Version
VersionToString(v) ==
    CASE v = "Version2018_06_28" -> "2018-06-28"
      [] v = "Version2018_12_30" -> "2018-12-30"

-----------------------------------------------------------------------------
(* iotedged/src/lib.rs: constants *)

EDGE_RUNTIME_MODULEID == "$edgeAgent"
AUTH_SCHEME           == "sasToken"
HOSTNAME_KEY          == "IOTEDGE_IOTHUBHOSTNAME"
GATEWAY_HOSTNAME_KEY  == "EDGEDEVICEHOSTNAME"
DEVICEID_KEY          == "IOTEDGE_DEVICEID"
MODULEID_KEY          == "IOTEDGE_MODULEID"
WORKLOAD_URI_KEY      == "IOTEDGE_WORKLOADURI"
MANAGEMENT_URI_KEY    == "IOTEDGE_MANAGEMENTURI"
AUTHSCHEME_KEY        == "IOTEDGE_AUTHSCHEME"
EDGE_RUNTIME_MODE_KEY == "Mode"
EDGE_RUNTIME_MODE     == "iotedged"
EDGE_NETWORKID_KEY    == "NetworkId"
EDGE_NETWORKID        == "azure-iot-edge"
API_VERSION_KEY       == "IOTEDGE_APIVERSION"
UNIX_SCHEME           == "unix"
EDGE_PROVISIONING_BACKUP_FILENAME == "provisioning_backup.json"
EDGE_SETTINGS_STATE_FILENAME      == "settings_state"

-----------------------------------------------------------------------------
(* build_env *)

\* HashMap<String, String> as a function over its key set
EmptyMap == [k \in {} |-> ""]

\* HashMap::insert: the new value replaces an old one under the same key
Insert(m, k, v) == [x \in (DOMAIN m) \cup {k} |-> IF x = k THEN v ELSE m[x]]

\* the loop `for (key, val) in spec_env.iter() { env.insert(key, val) }`:
\* keys of a HashMap are distinct, so the iteration order does not matter
InsertAll(m, src) ==
    [x \in (DOMAIN m) \cup (DOMAIN src) |-> IF x \in DOMAIN src THEN src[x] ELSE m[x]]

\* Url rendering (Url::to_string) of a [scheme, host, path] url
UrlToString(u) == u.scheme \o "://" \o u.host \o u.path

\* str::to_lowercase on the host names the model draws
ToLowercase(s) ==
    CASE s = "EdgeHost" -> "edgehost"
      [] OTHER          -> s

\* mutant: the user-supplied entries are applied first, the injected ones over them
build_env_InjectedLast(spec_env, hostname, device_id, stngs, network_id) ==
    LET e0  == InsertAll(EmptyMap, spec_env)
        e1  == Insert(e0, HOSTNAME_KEY, hostname)
        e2  == Insert(e1, GATEWAY_HOSTNAME_KEY, ToLowercase(stngs.hostname))
        e3  == Insert(e2, DEVICEID_KEY, device_id)
        e4  == Insert(e3, MODULEID_KEY, EDGE_RUNTIME_MODULEID)
        e5  == Insert(e4, WORKLOAD_URI_KEY, UrlToString(stngs.connect.workload_uri))
        e6  == Insert(e5, MANAGEMENT_URI_KEY, UrlToString(stngs.connect.management_uri))
        e7  == Insert(e6, AUTHSCHEME_KEY, AUTH_SCHEME)
        e8  == Insert(e7, EDGE_RUNTIME_MODE_KEY, EDGE_RUNTIME_MODE)
        e9  == Insert(e8, EDGE_NETWORKID_KEY, network_id)
    IN  Insert(e9, API_VERSION_KEY, VersionToString(API_VERSION))

\* mutant: the api version is inserted with the other injected keys, before the
\* user-supplied entries
build_env_VersionFirst(spec_env, hostname, device_id, stngs, network_id) ==
    LET e0  == Insert(EmptyMap, API_VERSION_KEY, VersionToString(API_VERSION))
        e1  == Insert(e0, HOSTNAME_KEY, hostname)
        e2  == Insert(e1, GATEWAY_HOSTNAME_KEY, ToLowercase(stngs.hostname))
        e3  == Insert(e2, DEVICEID_KEY, device_id)
        e4  == Insert(e3, MODULEID_KEY, EDGE_RUNTIME_MODULEID)
        e5  == Insert(e4, WORKLOAD_URI_KEY, UrlToString(stngs.connect.workload_uri))
        e6  == Insert(e5, MANAGEMENT_URI_KEY, UrlToString(stngs.connect.management_uri))
        e7  == Insert(e6, AUTHSCHEME_KEY, AUTH_SCHEME)
        e8  == Insert(e7, EDGE_RUNTIME_MODE_KEY, EDGE_RUNTIME_MODE)
        e9  == Insert(e8, EDGE_NETWORKID_KEY, network_id)
    IN  InsertAll(e9, spec_env)

\* mutant: only the injected keys are set, the user-supplied entries are dropped
build_env_InjectedOnly(spec_env, hostname, device_id, stngs, network_id) ==
    LET e0  == EmptyMap
        e1  == Insert(e0, HOSTNAME_KEY, hostname)
        e2  == Insert(e1, GATEWAY_HOSTNAME_KEY, ToLowercase(stngs.hostname))
        e3  == Insert(e2, DEVICEID_KEY, device_id)
        e4  == Insert(e3, MODULEID_KEY, EDGE_RUNTIME_MODULEID)
        e5  == Insert(e4, WORKLOAD_URI_KEY, UrlToString(stngs.connect.workload_uri))
        e6  == Insert(e5, MANAGEMENT_URI_KEY, UrlToString(stngs.connect.management_uri))
        e7  == Insert(e6, AUTHSCHEME_KEY, AUTH_SCHEME)
        e8  == Insert(e7, EDGE_RUNTIME_MODE_KEY, EDGE_RUNTIME_MODE)
        e9  == Insert(e8, EDGE_NETWORKID_KEY, network_id)
    IN  Insert(e9, API_VERSION_KEY, VersionToString(API_VERSION))

\* fn build_env
build_env(spec_env, hostname, device_id, stngs, network_id) ==
    LET e0  == EmptyMap
        e1  == Insert(e0, HOSTNAME_KEY, hostname)
        e2  == Insert(e1, GATEWAY_HOSTNAME_KEY, ToLowercase(stngs.hostname))
        e3  == Insert(e2, DEVICEID_KEY, device_id)
        e4  == Insert(e3, MODULEID_KEY, EDGE_RUNTIME_MODULEID)
        e5  == Insert(e4, WORKLOAD_URI_KEY, UrlToString(stngs.connect.workload_uri))
        e6  == Insert(e5, MANAGEMENT_URI_KEY, UrlToString(stngs.connect.management_uri))
        e7  == Insert(e6, AUTHSCHEME_KEY, AUTH_SCHEME)
        e8  == Insert(e7, EDGE_RUNTIME_MODE_KEY, EDGE_RUNTIME_MODE)
        e9  == Insert(e8, EDGE_NETWORKID_KEY, network_id)
        e10 == InsertAll(e9, spec_env)
    IN  Insert(e10, API_VERSION_KEY, VersionToString(API_VERSION))

\* the value the daemon injects under key k
Injected(k, hostname, device_id, stngs, network_id) ==
    CASE k = HOSTNAME_KEY          -> hostname
      [] k = GATEWAY_HOSTNAME_KEY  -> ToLowercase(stngs.hostname)
      [] k = DEVICEID_KEY          -> device_id
      [] k = MODULEID_KEY          -> EDGE_RUNTIME_MODULEID
      [] k = WORKLOAD_URI_KEY      -> UrlToString(stngs.connect.workload_uri)
      [] k = MANAGEMENT_URI_KEY    -> UrlToString(stngs.connect.management_uri)
      [] k = AUTHSCHEME_KEY        -> AUTH_SCHEME
      [] k = EDGE_RUNTIME_MODE_KEY -> EDGE_RUNTIME_MODE
      [] k = EDGE_NETWORKID_KEY    -> network_id
      [] k = API_VERSION_KEY       -> VersionToString(API_VERSION)

\* the injected keys other than IOTEDGE_APIVERSION
OverridableKeys ==
    {HOSTNAME_KEY, GATEWAY_HOSTNAME_KEY, DEVICEID_KEY, MODULEID_KEY, WORKLOAD_URI_KEY,
     MANAGEMENT_URI_KEY, AUTHSCHEME_KEY, EDGE_RUNTIME_MODE_KEY, EDGE_NETWORKID_KEY}

InjectedKeys == OverridableKeys \cup {API_VERSION_KEY}

\* ---- inputs of the build_env specification
UserKeys   == InjectedKeys \cup {"EXTRA"}
UserValues == {"x", "1"}

UserEnvs ==
    UNION { [ks -> UserValues] : ks \in {s \in SUBSET UserKeys : Cardinality(s) <= MaxUserEnv} }

UnixUrl(p)  == [scheme |-> UNIX_SCHEME, host |-> "", path |-> p]
HttpUrl(h)  == [scheme |-> "http", host |-> h, path |-> "/"]

EnvSettings ==
    { [hostname |-> h, connect |-> c] :
        h \in {"EdgeHost", "edgehost"},
        c \in { [management_uri |-> UnixUrl("/var/run/iotedge/mgmt.sock"),
                 workload_uri   |-> UnixUrl("/var/run/iotedge/workload.sock")],
                [management_uri |-> HttpUrl("localhost:8080"),
                 workload_uri   |-> HttpUrl("localhost:8081")] } }

EnvArgs ==
    [spec_env   : UserEnvs,
     hostname   : {"good"},
     device_id  : {"d"},
     settings   : EnvSettings,
     network_id : {EDGE_NETWORKID, "net"}]

EnvIdle ==
    /\ envPc = "idle"
    /\ envArgs = CHOOSE a \in EnvArgs : a.spec_env = EmptyMap
    /\ env = EmptyMap

InitEnvArgs ==
    /\ envPc = "ready"
    /\ envArgs \in EnvArgs
    /\ env = EmptyMap

\* the call of build_env made by start_runtime (lib.rs:449)
BuildEnvCall ==
    /\ envPc = "ready"
    /\ envPc' = "done"
    /\ env' = build_env(envArgs.spec_env, envArgs.hostname, envArgs.device_id,
                        envArgs.settings, envArgs.network_id)
    /\ UNCHANGED envArgs

-----------------------------------------------------------------------------
(* edgelet-http/src/route/mod.rs *)

Methods == {"GET", "POST"}
Paths   == {"/modules/foo", "/other"}

\* a query string after form_urlencoded::parse: a sequence of (key, value) pairs;
\* NoQuery is a uri without a query part
NoQuery     == None
QueryKeys   == {"api-version", "other"}
QueryValues == {"2018-06-28", "2018-12-30", "2017-01-01", "not-a-valid-version"}
QueryPair   == [key : QueryKeys, value : QueryValues]
Queries     == {NoQuery} \cup {Some(q) : q \in UNION { [1..n -> QueryPair] : n \in 0..MaxQuery }}

Requests == [method : Methods, path : Paths, query : Queries]

\* Iterator::find(|(key, _)| key == "api-version"): the first matching pair
FindApiVersion(query) ==
    LET hits == {i \in DOMAIN query : query[i].key = "api-version"}
    IN  IF hits = {} THEN None
        ELSE Some(query[CHOOSE i \in hits : \A j \in hits : i <= j].value)

\* mutant: the last api-version pair of the query decides
api_version_LastOccurrence(r) ==
    IF ~r.query.some THEN None
    ELSE LET query == r.query.val
             hits  == {i \in DOMAIN query : query[i].key = "api-version"}
         IN  IF hits = {} THEN None
             ELSE LET version ==
                          VersionFromStr(query[CHOOSE i \in hits : \A j \in hits : i >= j].value)
                  IN  IF version.ok THEN Some(version.val) ELSE None

\* mutant: a value that does not parse falls back to the current version
api_version_DefaultsToCurrent(r) ==
    IF ~r.query.some THEN None
    ELSE LET found == FindApiVersion(r.query.val)
         IN  IF ~found.some THEN None
             ELSE LET version == VersionFromStr(found.val)
                  IN  IF version.ok THEN Some(version.val) ELSE Some(API_VERSION)

\* RouterService::call, lines 159-174: the api_version block
api_version(r) ==
    IF ~r.query.some THEN None
    ELSE LET found == FindApiVersion(r.query.val)
         IN  IF ~found.some THEN None
             ELSE LET version == VersionFromStr(found.val)
                  IN  IF version.ok THEN Some(version.val) ELSE None

\* the routes of the router under test, in registration order
Routes ==
    << [method |-> "GET",  version |-> "Version2018_12_30", pattern |-> "/modules/:name"],
       [method |-> "POST", version |-> "Version2018_06_28", pattern |-> "/modules/:name"] >>

\* the captures of a compiled pattern on a path, None when it does not match
Captures(pattern, path) ==
    IF pattern = "/modules/:name" /\ path = "/modules/foo"
    THEN Some([name |-> "foo"])
    ELSE None

\* Recognizer::recognize: the first route of the version and method whose pattern
\* matches; 405 when only routes of other methods match the path, else 404
recognize(method, version, path) ==
    LET hits  == {i \in DOMAIN Routes :
                     /\ Routes[i].version = version
                     /\ Routes[i].method = method
                     /\ Captures(Routes[i].pattern, path).some}
        other == {i \in DOMAIN Routes :
                     /\ Routes[i].method # method
                     /\ Captures(Routes[i].pattern, path).some}
    IN  IF hits # {}
        THEN LET i == CHOOSE i \in hits : \A j \in hits : i <= j
             IN  Ok([handler |-> i, params |-> Captures(Routes[i].pattern, path).val])
        ELSE IF other # {} THEN Err(405) ELSE Err(404)

\* impl IntoResponse for Error: the status and body of an error's response
into_response(kind) ==
    IF kind = "InvalidApiVersion"
    THEN [status |-> 400, body |-> "InvalidApiVersion"]
    ELSE [status |-> 500, body |-> kind]

\* what a handler's future may resolve to
HandlerOutcomes ==
    { Ok([status |-> 200, body |-> "handled"]),
      Ok([status |-> 418, body |-> "handled"]),
      Err("ServiceError") }

RouterIdle ==
    /\ rpc = "idle"
    /\ req = [method |-> "GET", path |-> "/other", query |-> NoQuery]
    /\ reply = None
    /\ recognizeCalls = 0 /\ handlerCalls = 0
    /\ lastRecognize = None /\ lastParams = None /\ handlerResult = None

\* mutant: the recognizer is asked under the current version, whatever the
\* request's api-version says
Call_RecognizesCurrentVersion(r) ==
    /\ rpc = "idle"
    /\ req' = r
    /\ handlerResult' = None
    /\ LET v == api_version(r) IN
       IF v.some
       THEN LET rec == recognize(r.method, API_VERSION, r.path) IN
            /\ recognizeCalls' = 1
            /\ lastRecognize' = Some([method |-> r.method, version |-> API_VERSION,
                                      path |-> r.path])
            /\ IF rec.ok
               THEN /\ handlerCalls' = 1
                    /\ lastParams' = Some(rec.val)
                    /\ rpc' = "pending"
                    /\ reply' = None
               ELSE /\ handlerCalls' = 0
                    /\ lastParams' = None
                    /\ rpc' = "replied"
                    /\ reply' = Some(Ok([status |-> rec.err, body |-> ""]))
       ELSE /\ recognizeCalls' = 0
            /\ handlerCalls' = 0
            /\ lastRecognize' = None
            /\ lastParams' = None
            /\ rpc' = "replied"
            /\ reply' = Some(Ok(into_response("InvalidApiVersion")))

\* RouterService::call(req), up to the future it returns
Call(r) ==
    /\ rpc = "idle"
    /\ req' = r
    /\ handlerResult' = None
    /\ LET v == api_version(r) IN
       IF v.some
       THEN LET rec == recognize(r.method, v.val, r.path) IN
            /\ recognizeCalls' = 1
            /\ lastRecognize' = Some([method |-> r.method, version |-> v.val, path |-> r.path])
            /\ IF rec.ok
               THEN \* Ok((handler, params)) => handler.handle(req, params).map_err(compat)
                    /\ handlerCalls' = 1
                    /\ lastParams' = Some(rec.val)
                    /\ rpc' = "pending"
                    /\ reply' = None
               ELSE \* Err(code) => future::ok(status(code), empty body)
                    /\ handlerCalls' = 0
                    /\ lastParams' = None
                    /\ rpc' = "replied"
                    /\ reply' = Some(Ok([status |-> rec.err, body |-> ""]))
       ELSE \* None => future::ok(InvalidApiVersion.into_response())
            /\ recognizeCalls' = 0
            /\ handlerCalls' = 0
            /\ lastRecognize' = None
            /\ lastParams' = None
            /\ rpc' = "replied"
            /\ reply' = Some(Ok(into_response("InvalidApiVersion")))

\* the future of line 182 resolves: handler.handle(..).map_err(|err| err.compat())
HandlerResolves(out) ==
    /\ rpc = "pending"
    /\ handlerResult' = Some(out)
    /\ reply' = Some(IF out.ok THEN out ELSE Err("Compat(" \o out.err \o ")"))
    /\ rpc' = "replied"
    /\ UNCHANGED <<req, recognizeCalls, handlerCalls, lastRecognize, lastParams>>

\* the server takes the reply off the future; the service is ready for the next call
ReplyTaken ==
    /\ rpc = "replied"
    /\ rpc' = "idle"
    /\ req' = [method |-> "GET", path |-> "/other", query |-> NoQuery]
    /\ reply' = None
    /\ recognizeCalls' = 0 /\ handlerCalls' = 0
    /\ lastRecognize' = None /\ lastParams' = None /\ handlerResult' = None
    /\ UNCHANGED <<envVars, builderVars, mountVars, bootVars>>

ServeRequest ==
    /\ \E r \in Requests : Call(r)
    /\ UNCHANGED <<envVars, builderVars, mountVars, bootVars>>

ResolveHandler ==
    /\ \E out \in HandlerOutcomes : HandlerResolves(out)
    /\ UNCHANGED <<envVars, builderVars, mountVars, bootVars>>

-----------------------------------------------------------------------------
(* iotedged/src/lib.rs: the settings cache guard *)

\* the settings files a boot may be given
SampleSettings ==
    [cfg : {"sample_settings", "sample_settings1"}, source : {"manual", "dps"}]

\* no daemon has run yet
NoSettings == [cfg |-> "none", source |-> "none"]

\* serde_json::to_string(settings)
SettingsJson(s) == "{cfg:" \o s.cfg \o ",provisioning:" \o s.source \o "}"

\* Sha256::digest_str
Sha256(str) == "sha256(" \o str \o ")"

\* base64::encode
Base64(bytes) == "b64(" \o bytes \o ")"

\* lines 300-303 of reconfigure: the fingerprint written to the state file
Fingerprint(s) == Base64(Sha256(SettingsJson(s)))

CacheFiles == {EDGE_SETTINGS_STATE_FILENAME, EDGE_PROVISIONING_BACKUP_FILENAME}
NoFile     == "<absent>"
NoResult   == "<no result>"

\* what a write_all that fails may leave in the file
PartialContents == {"", "b64(sha"}

\* the ProvisioningResult values, as serialised in the backup file
ProvisioningResults == {"hub1/dev1", "hub2/dev1"}

\* Settings::diff_with_cached(path): the file is missing or differs from the
\* fingerprint of the settings
diff_with_cached(s, path) ==
    \/ ~dir
    \/ files[path] = NoFile
    \/ files[path] # Fingerprint(s)

\* a function returns an error to run_until, which returns it
Fail ==
    /\ pc' = "off"
    /\ result' = "err"

GuardFails ==
    /\ Fail
    /\ guardResult' = "err"
    /\ lastGuard' = Some([settings |-> settings, ok |-> FALSE])

\* mutant: a successful guard run goes straight to start_api
GuardSucceeds_StartsApi ==
    /\ pc' = "start_management"
    /\ guardResult' = "ok"
    /\ lastGuard' = Some([settings |-> settings, ok |-> TRUE])
    /\ UNCHANGED result

GuardSucceeds ==
    /\ pc' = "provision"
    /\ guardResult' = "ok"
    /\ lastGuard' = Some([settings |-> settings, ok |-> TRUE])
    /\ UNCHANGED result

\* Main::run_until is entered with settings s
Boot(s) ==
    /\ pc = "off"
    /\ UNCHANGED otherVars
    /\ boots < MaxBoots
    /\ boots' = boots + 1
    /\ settings' = s
    /\ pc' = "init_runtime"
    /\ signal' = "pending"
    /\ result' = "none"
    /\ provResult' = NoResult
    /\ registration' = "none"
    /\ pre' = None
    /\ guardResult' = "none"
    /\ removeAllCalls' = 0 /\ createKeyCalls' = 0 /\ fsWrites' = 0
    /\ rmOutcome' = "none" /\ keyOutcome' = "none"
    /\ mgmt' = "none" /\ work' = "none" /\ rt' = "none"
    /\ mgmtTx' = "none" /\ workTx' = "none" /\ runtTx' = "none"
    /\ shutdownTask' = "none" /\ joinResult' = "none"
    /\ UNCHANGED <<fsVars, lastGuard>>

\* the positions of start_api
StartApiPcs == {"start_management", "start_workload", "start_runtime", "spawn_shutdown", "run"}

\* the shutdown_signal future handed to run_until becomes ready; nothing looks at
\* it before start_api, so a signal that fired earlier is seen as having fired there
SignalFires ==
    /\ pc \in StartApiPcs
    /\ UNCHANGED otherVars
    /\ signal = "pending"
    /\ signal' = "fired"
    /\ UNCHANGED <<pc, boots, settings, result, provVars, fsVars, guardVars, apiVars>>

\* mutant: an error of init_docker_runtime is recorded and the boot goes on
InitDockerRuntime_ErrorIgnored ==
    /\ pc = "init_runtime"
    /\ UNCHANGED otherVars
    /\ pc' = "check_settings"
    /\ \/ UNCHANGED result
       \/ result' = "err"
    /\ UNCHANGED <<boots, settings, signal, provVars, fsVars, guardVars, apiVars>>

\* init_docker_runtime(&runtime, &mut core)?
InitDockerRuntime ==
    /\ pc = "init_runtime"
    /\ UNCHANGED otherVars
    /\ \/ pc' = "check_settings" /\ UNCHANGED result
       \/ Fail
    /\ UNCHANGED <<boots, settings, signal, provVars, fsVars, guardVars, apiVars>>

\* mutant: reconfigures on every boot, whatever the cached state says
CheckSettingsState_AlwaysReconfigure ==
    /\ pc = "check_settings"
    /\ UNCHANGED otherVars
    /\ pre' = Some([dir |-> dir, files |-> files, last |-> lastGuard])
    /\ pc' = "remove_all"
    /\ UNCHANGED <<result, guardResult, lastGuard>>
    /\ UNCHANGED <<boots, settings, signal, provVars, fsVars, removeAllCalls,
                   createKeyCalls, fsWrites, rmOutcome, keyOutcome, apiVars>>

\* mutant: on drift the cache is rebuilt without calling remove_all
CheckSettingsState_SkipsRemoveAll ==
    /\ pc = "check_settings"
    /\ UNCHANGED otherVars
    /\ pre' = Some([dir |-> dir, files |-> files, last |-> lastGuard])
    /\ IF diff_with_cached(settings, EDGE_SETTINGS_STATE_FILENAME)
       THEN /\ pc' = "remove_dir_all"
            /\ UNCHANGED <<result, guardResult, lastGuard>>
       ELSE GuardSucceeds
    /\ UNCHANGED <<boots, settings, signal, provVars, fsVars, removeAllCalls,
                   createKeyCalls, fsWrites, rmOutcome, keyOutcome, apiVars>>

\* check_settings_state: diff_with_cached, then reconfigure when it reports a difference
CheckSettingsState ==
    /\ pc = "check_settings"
    /\ UNCHANGED otherVars
    /\ pre' = Some([dir |-> dir, files |-> files, last |-> lastGuard])
    /\ IF diff_with_cached(settings, EDGE_SETTINGS_STATE_FILENAME)
       THEN /\ pc' = "remove_all"
            /\ UNCHANGED <<result, guardResult, lastGuard>>
       ELSE GuardSucceeds
    /\ UNCHANGED <<boots, settings, signal, provVars, fsVars, removeAllCalls,
                   createKeyCalls, fsWrites, rmOutcome, keyOutcome, apiVars>>

\* reconfigure, line 288: core.run(runtime.remove_all())?
RemoveAll ==
    /\ pc = "remove_all"
    /\ UNCHANGED otherVars
    /\ removeAllCalls' = removeAllCalls + 1
    /\ \/ pc' = "remove_dir_all" /\ UNCHANGED <<result, guardResult, lastGuard>>
       \/ GuardFails
    /\ UNCHANGED <<boots, settings, signal, provVars, fsVars, pre, createKeyCalls,
                   fsWrites, rmOutcome, keyOutcome, apiVars>>

\* what a remove_dir_all that fails part-way may leave: each file kept or removed
AfterFailedRemoval == {g \in [CacheFiles -> {NoFile} \cup {files[f] : f \in CacheFiles}] :
                          \A f \in CacheFiles : g[f] \in {NoFile, files[f]}}

\* reconfigure, line 289: let _u = fs::remove_dir_all(subdir) -- the result is dropped
RemoveDirAll ==
    /\ pc = "remove_dir_all"
    /\ UNCHANGED otherVars
    /\ \/ /\ ~dir
          /\ rmOutcome' = "absent"
          /\ UNCHANGED <<fsVars, fsWrites>>
       \/ /\ dir
          /\ rmOutcome' = "removed"
          /\ dir' = FALSE
          /\ files' = [f \in CacheFiles |-> NoFile]
          /\ fsWrites' = fsWrites + 1
       \/ /\ dir
          /\ rmOutcome' = "failed"
          /\ files' \in AfterFailedRemoval
          /\ fsWrites' = fsWrites + 1
          /\ UNCHANGED dir
    /\ pc' = "create_dir"
    /\ UNCHANGED <<boots, settings, signal, result, provVars, pre, guardResult, lastGuard,
                   removeAllCalls, createKeyCalls, keyOutcome, apiVars>>

\* reconfigure, line 293: DirBuilder::new().recursive(true).create(subdir)?
CreateDir ==
    /\ pc = "create_dir"
    /\ UNCHANGED otherVars
    /\ \/ /\ dir' = TRUE
          /\ fsWrites' = IF dir THEN fsWrites ELSE fsWrites + 1
          /\ pc' = "create_key"
          /\ UNCHANGED <<result, guardResult, lastGuard>>
       \/ /\ GuardFails
          /\ UNCHANGED <<dir, fsWrites>>
    /\ UNCHANGED <<boots, settings, signal, provVars, files, pre, removeAllCalls,
                   createKeyCalls, rmOutcome, keyOutcome, apiVars>>

\* what crypto.create_key may return: Ok, the key-already-exists error, another error
KeyOutcomes == {"ok", "exists", "err"}

\* mutant: an error of create_key is returned with `?`
CreateKey_ErrorPropagates ==
    /\ pc = "create_key"
    /\ UNCHANGED otherVars
    /\ createKeyCalls' = createKeyCalls + 1
    /\ \E o \in KeyOutcomes :
          /\ keyOutcome' = o
          /\ IF o = "ok"
             THEN pc' = "create_file" /\ UNCHANGED <<result, guardResult, lastGuard>>
             ELSE GuardFails
    /\ UNCHANGED <<boots, settings, signal, provVars, fsVars, pre,
                   removeAllCalls, fsWrites, rmOutcome, apiVars>>

\* reconfigure, line 298: let _u = crypto.create_key() -- the result is dropped
CreateKey ==
    /\ pc = "create_key"
    /\ UNCHANGED otherVars
    /\ createKeyCalls' = createKeyCalls + 1
    /\ keyOutcome' \in KeyOutcomes
    /\ pc' = "create_file"
    /\ UNCHANGED <<boots, settings, signal, result, provVars, fsVars, pre, guardResult,
                   lastGuard, removeAllCalls, fsWrites, rmOutcome, apiVars>>

\* reconfigure, line 299: File::create(path)? -- creates or truncates the state file
CreateFile ==
    /\ pc = "create_file"
    /\ UNCHANGED otherVars
    /\ \/ /\ files' = [files EXCEPT ![EDGE_SETTINGS_STATE_FILENAME] = ""]
          /\ fsWrites' = fsWrites + 1
          /\ pc' = "write_state"
          /\ UNCHANGED <<result, guardResult, lastGuard>>
       \/ /\ GuardFails
          /\ UNCHANGED <<files, fsWrites>>
    /\ UNCHANGED <<boots, settings, signal, provVars, dir, pre, removeAllCalls,
                   createKeyCalls, rmOutcome, keyOutcome, apiVars>>

\* mutant: the serialised settings are written without hashing them
WriteState_PlainJson ==
    /\ pc = "write_state"
    /\ UNCHANGED otherVars
    /\ fsWrites' = fsWrites + 1
    /\ files' = [files EXCEPT ![EDGE_SETTINGS_STATE_FILENAME] = SettingsJson(settings)]
    /\ GuardSucceeds
    /\ UNCHANGED <<boots, settings, signal, provVars, dir, pre, removeAllCalls,
                   createKeyCalls, rmOutcome, keyOutcome, apiVars>>

\* mutant: a write that reports an error has left the whole fingerprint in the file
WriteState_ErrorAfterFullWrite ==
    /\ pc = "write_state"
    /\ UNCHANGED otherVars
    /\ fsWrites' = fsWrites + 1
    /\ files' = [files EXCEPT ![EDGE_SETTINGS_STATE_FILENAME] = Fingerprint(settings)]
    /\ \/ GuardSucceeds
       \/ GuardFails
    /\ UNCHANGED <<boots, settings, signal, provVars, dir, pre, removeAllCalls,
                   createKeyCalls, rmOutcome, keyOutcome, apiVars>>

\* reconfigure, lines 300-304: file.write_all(base64(sha256(json(settings))))
WriteState ==
    /\ pc = "write_state"
    /\ UNCHANGED otherVars
    /\ fsWrites' = fsWrites + 1
    /\ \/ /\ files' = [files EXCEPT ![EDGE_SETTINGS_STATE_FILENAME] = Fingerprint(settings)]
          /\ GuardSucceeds
       \/ /\ \E part \in PartialContents :
                files' = [files EXCEPT ![EDGE_SETTINGS_STATE_FILENAME] = part]
          /\ GuardFails
    /\ UNCHANGED <<boots, settings, signal, provVars, dir, pre, removeAllCalls,
                   createKeyCalls, rmOutcome, keyOutcome, apiVars>>

-----------------------------------------------------------------------------
(* iotedged/src/lib.rs: provisioning *)

\* manual_provision(&manual, &mut core)?
ManualProvision ==
    /\ pc = "provision"
    /\ UNCHANGED otherVars
    /\ settings.source = "manual"
    /\ \/ /\ provResult' \in ProvisioningResults
          /\ pc' = "start_management"
          /\ UNCHANGED result
       \/ /\ Fail
          /\ UNCHANGED provResult
    /\ UNCHANGED <<boots, settings, signal, registration, fsVars, guardVars, apiVars>>

\* a backup file that exists and parses
ValidBackup(content) == content \in ProvisioningResults

\* mutant: a successful registration is returned without being written to the
\* backup file
DpsProvision_NotPersisted ==
    /\ pc = "provision"
    /\ UNCHANGED otherVars
    /\ settings.source = "dps"
    /\ dir
    /\ registration' = "ok"
    /\ provResult' \in ProvisioningResults
    /\ pc' = "start_management"
    /\ UNCHANGED <<result, fsVars>>
    /\ UNCHANGED <<boots, settings, signal, guardVars, apiVars>>

\* dps_provision(&dps, hyper_client, &mut core, dps_path)?: the TPM is queried
\* (lines 405-417), then BackupProvisioning::provision runs the registration,
\* persists a successful result to the backup file and falls back to the backup
\* file when the registration fails
DpsProvision ==
    /\ pc = "provision"
    /\ UNCHANGED otherVars
    /\ settings.source = "dps"
    /\ \/ \* Tpm::new, get_ek, get_srk, DpsProvisioning::new or from_hsm fails
          /\ Fail
          /\ UNCHANGED <<provVars, fsVars>>
       \/ \* the registration succeeds and is persisted
          /\ dir
          /\ registration' = "ok"
          /\ \E r \in ProvisioningResults :
                /\ provResult' = r
                /\ files' = [files EXCEPT ![EDGE_PROVISIONING_BACKUP_FILENAME] = r]
          /\ pc' = "start_management"
          /\ UNCHANGED <<result, dir>>
       \/ \* the registration succeeds, writing the backup file fails
          /\ registration' = "ok"
          /\ Fail
          /\ UNCHANGED <<provResult, fsVars>>
       \/ \* the registration fails, the backup is restored
          /\ dir
          /\ registration' = "err"
          /\ ValidBackup(files[EDGE_PROVISIONING_BACKUP_FILENAME])
          /\ provResult' = files[EDGE_PROVISIONING_BACKUP_FILENAME]
          /\ pc' = "start_management"
          /\ UNCHANGED <<result, fsVars>>
       \/ \* the registration fails and there is no backup that parses
          /\ registration' = "err"
          /\ ~(dir /\ ValidBackup(files[EDGE_PROVISIONING_BACKUP_FILENAME]))
          /\ Fail
          /\ UNCHANGED <<provResult, fsVars>>
    /\ UNCHANGED <<boots, settings, signal, guardVars, apiVars>>

-----------------------------------------------------------------------------
(* iotedged/src/lib.rs: start_api *)

\* mutant: the listener is bound lazily, when the launcher is first polled
StartManagement_LazyBind ==
    /\ pc = "start_management"
    /\ UNCHANGED otherVars
    /\ mgmtTx' = "open"
    /\ workTx' = "open"
    /\ pc' = "start_workload"
    /\ UNCHANGED <<result, mgmt>>
    /\ UNCHANGED <<boots, settings, signal, provVars, fsVars, guardVars, work, rt, runtTx,
                   shutdownTask, joinResult>>

\* lines 337-340: the two launcher channels, then start_management(..)? binds
\* the management listener (bind_handle, line 556)
StartManagement ==
    /\ pc = "start_management"
    /\ UNCHANGED otherVars
    /\ mgmtTx' = "open"
    /\ workTx' = "open"
    /\ \/ /\ mgmt' = "bound"
          /\ pc' = "start_workload"
          /\ UNCHANGED result
       \/ /\ Fail
          /\ UNCHANGED mgmt
    /\ UNCHANGED <<boots, settings, signal, provVars, fsVars, guardVars, work, rt, runtTx,
                   shutdownTask, joinResult>>

\* line 342: start_workload(..)? binds the workload listener (bind_handle, line 583)
StartWorkload ==
    /\ pc = "start_workload"
    /\ UNCHANGED otherVars
    /\ \/ /\ work' = "bound"
          /\ pc' = "start_runtime"
          /\ UNCHANGED result
       \/ /\ Fail
          /\ UNCHANGED work
    /\ UNCHANGED <<boots, settings, signal, provVars, fsVars, guardVars, mgmt, rt, mgmtTx,
                   workTx, runtTx, shutdownTask, joinResult>>

\* lines 344-347: the watchdog channel, then start_runtime(..)? builds the agent
\* spec and the watchdog future
StartRuntime ==
    /\ pc = "start_runtime"
    /\ UNCHANGED otherVars
    /\ runtTx' = "open"
    /\ \/ /\ rt' = "created"
          /\ pc' = "spawn_shutdown"
          /\ UNCHANGED result
       \/ /\ Fail
          /\ UNCHANGED rt
    /\ UNCHANGED <<boots, settings, signal, provVars, fsVars, guardVars, mgmt, work, mgmtTx,
                   workTx, shutdownTask, joinResult>>

\* lines 351-365: the cleanup continuation and the shutdown listener are built,
\* the listener is spawned and core.run(join3) is entered
SpawnShutdown ==
    /\ pc = "spawn_shutdown"
    /\ UNCHANGED otherVars
    /\ shutdownTask' = "spawned"
    /\ pc' = "run"
    /\ UNCHANGED <<boots, settings, signal, result, provVars, fsVars, guardVars, mgmt, work,
                   rt, mgmtTx, workTx, runtTx, joinResult>>

\* the watchdog future is neither completed nor dropped
WatchdogAlive == rt \in {"created", "running", "restarting"}

\* Watchdog::run_until resolves Ok once its shutdown channel has delivered
WatchdogCompletes == WatchdogAlive /\ runtTx = "sent"

\* a server's run_until(shutdown) resolves Ok once its shutdown channel has delivered
ServerCompletes(server, tx) == server = "bound" /\ tx = "sent"

\* oneshot::Sender::send: fails when the receiver is gone; the caller drops the result
Send(receiverAlive) == IF receiverAlive THEN "sent" ELSE "send_failed"

\* mutant: the shutdown listener cancels the three arms at once
ShutdownTask_CancelsAll ==
    /\ pc = "run"
    /\ UNCHANGED otherVars
    /\ shutdownTask = "spawned"
    /\ signal = "fired"
    /\ shutdownTask' = "done"
    /\ runtTx' = Send(WatchdogAlive)
    /\ mgmtTx' = Send(mgmt = "bound")
    /\ workTx' = Send(work = "bound")
    /\ UNCHANGED <<pc, boots, settings, signal, result, provVars, fsVars, guardVars, mgmt,
                   work, rt, joinResult>>

\* mutant: the listener's send reaches the watchdog only while the agent runs
ShutdownTask_DropsEarlySignal ==
    /\ pc = "run"
    /\ UNCHANGED otherVars
    /\ shutdownTask = "spawned"
    /\ signal = "fired"
    /\ shutdownTask' = "done"
    /\ runtTx' = Send(rt = "running")
    /\ UNCHANGED <<pc, boots, settings, signal, result, provVars, fsVars, guardVars, mgmt,
                   work, rt, mgmtTx, workTx, joinResult>>

\* lines 357-361: the spawned listener sees the signal and sends on runt_tx
ShutdownTask ==
    /\ pc = "run"
    /\ UNCHANGED otherVars
    /\ shutdownTask = "spawned"
    /\ signal = "fired"
    /\ shutdownTask' = "done"
    /\ runtTx' = Send(WatchdogAlive)
    /\ UNCHANGED <<pc, boots, settings, signal, result, provVars, fsVars, guardVars, mgmt,
                   work, rt, mgmtTx, workTx, joinResult>>

\* mutant: the join waits for the three arms before it reports an error
Join_WaitsForAll(m, w, r) ==
    IF {m, w, r} \subseteq {"ok", "err"}
    THEN IF "err" \in {m, w, r}
         THEN /\ joinResult' = "err" /\ result' = "err" /\ pc' = "off"
         ELSE /\ joinResult' = "ok" /\ result' = "ok" /\ pc' = "off"
    ELSE UNCHANGED <<joinResult, result, pc>>

\* Join3::poll: an error of any arm ends the join with that error, dropping the
\* other arms; three completed arms end it with Ok. core.run then returns, and
\* with it start_api and run_until (lines 365-367, 248-249)
Join(m, w, r) ==
    IF "err" \in {m, w, r}
    THEN /\ joinResult' = "err" /\ result' = "err" /\ pc' = "off"
    ELSE IF m = "ok" /\ w = "ok" /\ r = "ok"
    THEN /\ joinResult' = "ok" /\ result' = "ok" /\ pc' = "off"
    ELSE UNCHANGED <<joinResult, result, pc>>

\* Watchdog::run_until is polled for the first time: it starts the agent module
WatchdogStarts ==
    /\ pc = "run"
    /\ UNCHANGED otherVars
    /\ rt = "created"
    /\ rt' = "running"
    /\ UNCHANGED <<pc, boots, settings, signal, result, provVars, fsVars, guardVars, mgmt,
                   work, mgmtTx, workTx, runtTx, shutdownTask, joinResult>>

\* the agent module exits unexpectedly: the watchdog sets out to restart it
AgentCrashes ==
    /\ pc = "run"
    /\ UNCHANGED otherVars
    /\ rt = "running"
    /\ rt' = "restarting"
    /\ UNCHANGED <<pc, boots, settings, signal, result, provVars, fsVars, guardVars, mgmt,
                   work, mgmtTx, workTx, runtTx, shutdownTask, joinResult>>

\* the watchdog has restarted the agent module
AgentRestarted ==
    /\ pc = "run"
    /\ UNCHANGED otherVars
    /\ rt = "restarting"
    /\ rt' = "running"
    /\ UNCHANGED <<pc, boots, settings, signal, result, provVars, fsVars, guardVars, mgmt,
                   work, mgmtTx, workTx, runtTx, shutdownTask, joinResult>>

\* the watchdog future completes on its shutdown channel; the cleanup
\* continuation of lines 351-355 then sends on mgmt_tx and work_tx
WatchdogStops ==
    /\ pc = "run"
    /\ UNCHANGED otherVars
    /\ WatchdogCompletes
    /\ rt' = "ok"
    /\ mgmtTx' = Send(mgmt = "bound")
    /\ workTx' = Send(work = "bound")
    /\ Join(mgmt, work, "ok")
    /\ UNCHANGED <<boots, settings, signal, provVars, fsVars, guardVars, mgmt, work, runtTx,
                   shutdownTask>>

\* mutant: the cleanup continuation runs on an error of the watchdog too (then
\* in place of and_then)
WatchdogFails_RunsCleanup ==
    /\ pc = "run"
    /\ UNCHANGED otherVars
    /\ WatchdogAlive
    /\ rt' = "err"
    /\ mgmtTx' = Send(mgmt = "bound")
    /\ workTx' = Send(work = "bound")
    /\ Join(mgmt, work, "err")
    /\ UNCHANGED <<boots, settings, signal, provVars, fsVars, guardVars, mgmt, work, runtTx,
                   shutdownTask>>

\* the watchdog future completes with an error: and_then drops the cleanup
\* continuation, and the two senders it owns, without running it
WatchdogFails ==
    /\ pc = "run"
    /\ UNCHANGED otherVars
    /\ WatchdogAlive
    /\ rt' = "err"
    /\ mgmtTx' = "dropped"
    /\ workTx' = "dropped"
    /\ Join(mgmt, work, "err")
    /\ UNCHANGED <<boots, settings, signal, provVars, fsVars, guardVars, mgmt, work, runtTx,
                   shutdownTask>>

\* the management server completes once its shutdown channel has fired
ManagementStops ==
    /\ pc = "run"
    /\ UNCHANGED otherVars
    /\ ServerCompletes(mgmt, mgmtTx)
    /\ mgmt' = "ok"
    /\ Join("ok", work, rt)
    /\ UNCHANGED <<boots, settings, signal, provVars, fsVars, guardVars, work, rt, mgmtTx,
                   workTx, runtTx, shutdownTask>>

\* the management server completes with an error
ManagementFails ==
    /\ pc = "run"
    /\ UNCHANGED otherVars
    /\ mgmt = "bound"
    /\ mgmt' = "err"
    /\ Join("err", work, rt)
    /\ UNCHANGED <<boots, settings, signal, provVars, fsVars, guardVars, work, rt, mgmtTx,
                   workTx, runtTx, shutdownTask>>

\* the workload server completes once its shutdown channel has fired
WorkloadStops ==
    /\ pc = "run"
    /\ UNCHANGED otherVars
    /\ ServerCompletes(work, workTx)
    /\ work' = "ok"
    /\ Join(mgmt, "ok", rt)
    /\ UNCHANGED <<boots, settings, signal, provVars, fsVars, guardVars, mgmt, rt, mgmtTx,
                   workTx, runtTx, shutdownTask>>

\* the workload server completes with an error
WorkloadFails ==
    /\ pc = "run"
    /\ UNCHANGED otherVars
    /\ work = "bound"
    /\ work' = "err"
    /\ Join(mgmt, "err", rt)
    /\ UNCHANGED <<boots, settings, signal, provVars, fsVars, guardVars, mgmt, rt, mgmtTx,
                   workTx, runtTx, shutdownTask>>

-----------------------------------------------------------------------------
(* edgelet-http/src/route/mod.rs: Builder *)

\* the arguments callers hand to get/post/put/delete
RouteVersions == {"2018-06-28", "2018-12-30", "2017-01-01"}
RoutePatterns == {"/modules", "/modules/:name"}

BuilderIdle ==
    /\ builderPc = "idle"
    /\ routes = << >>
    /\ lastRoute = None

\* a fresh builder
InitBuilderState ==
    /\ builderPc = "building"
    /\ routes = << >>
    /\ lastRoute = None

\* Builder::route: the route is added after the ones registered before
route(method, version, pattern) ==
    /\ routes' = Append(routes, [method |-> method, version |-> version, pattern |-> pattern])
    /\ UNCHANGED builderPc

\* the body shared by get, post, put and delete:
\*     self.route(Method::M, version.parse::<Version>().unwrap(), pattern, handler)
\* Result::unwrap panics on Err(()): the thread unwinds and the builder, moved
\* into the call, is dropped with the routes it held
ParseUnwrapRoute(method, version, pattern) ==
    /\ builderPc = "building"
    /\ Len(routes) < MaxRoutes
    /\ lastRoute' = Some([method |-> method, version |-> version, pattern |-> pattern])
    /\ LET parsed == VersionFromStr(version) IN
       IF parsed.ok
       THEN route(method, parsed.val, pattern)
       ELSE /\ builderPc' = "panicked"
            /\ routes' = << >>

\* Builder::get
get(version, pattern) == ParseUnwrapRoute("GET", version, pattern)

\* Builder::post
post(version, pattern) == ParseUnwrapRoute("POST", version, pattern)

\* Builder::put
put(version, pattern) == ParseUnwrapRoute("PUT", version, pattern)

\* Builder::delete
delete(version, pattern) == ParseUnwrapRoute("DELETE", version, pattern)

\* Builder::finish
finish ==
    /\ builderPc = "building"
    /\ builderPc' = "finished"
    /\ UNCHANGED <<routes, lastRoute>>

BuilderGet ==
    /\ \E v \in RouteVersions, p \in RoutePatterns : get(v, p)
    /\ UNCHANGED <<envVars, routerVars, mountVars, bootVars>>

BuilderPost ==
    /\ \E v \in RouteVersions, p \in RoutePatterns : post(v, p)
    /\ UNCHANGED <<envVars, routerVars, mountVars, bootVars>>

BuilderPut ==
    /\ \E v \in RouteVersions, p \in RoutePatterns : put(v, p)
    /\ UNCHANGED <<envVars, routerVars, mountVars, bootVars>>

BuilderDelete ==
    /\ \E v \in RouteVersions, p \in RoutePatterns : delete(v, p)
    /\ UNCHANGED <<envVars, routerVars, mountVars, bootVars>>

BuilderFinish ==
    /\ finish
    /\ UNCHANGED <<envVars, routerVars, mountVars, bootVars>>

-----------------------------------------------------------------------------
(* iotedged/src/lib.rs: vol_mount_uri *)

\* HostConfig::new()
HostConfigNew == [binds |-> None, privileged |-> FALSE]

\* the binds field of a host config, Vec::new() when it is not set
BindsOf(create_options) ==
    IF create_options.host_config.some /\ create_options.host_config.val.binds.some
    THEN create_options.host_config.val.binds.val
    ELSE << >>

\* lines 483-487: one "<path>:<path>" per uri of scheme unix, in the order of uris
RECURSIVE PushUnixBinds(_, _)
PushUnixBinds(binds, uris) ==
    IF uris = << >> THEN binds
    ELSE LET uri == Head(uris) IN
         PushUnixBinds(IF uri.scheme = UNIX_SCHEME
                       THEN Append(binds, uri.path \o ":" \o uri.path)
                       ELSE binds,
                       Tail(uris))

\* mutant: the binds already configured are replaced, not extended
vol_mount_uri_ReplacesBinds(create_options, uris) ==
    LET host_config == IF create_options.host_config.some
                       THEN create_options.host_config.val
                       ELSE HostConfigNew
        binds       == PushUnixBinds(<< >>, uris)
    IN  IF binds # << >>
        THEN [create_options EXCEPT
                 !.host_config = Some([host_config EXCEPT !.binds = Some(binds)])]
        ELSE create_options

\* fn vol_mount_uri, lines 475-494: the create options set on the config
vol_mount_uri(create_options, uris) ==
    LET host_config == IF create_options.host_config.some
                       THEN create_options.host_config.val
                       ELSE HostConfigNew
        binds0      == IF host_config.binds.some THEN host_config.binds.val ELSE << >>
        binds       == PushUnixBinds(binds0, uris)
    IN  IF binds # << >>
        THEN [create_options EXCEPT
                 !.host_config = Some([host_config EXCEPT !.binds = Some(binds)])]
        ELSE create_options

\* ---- inputs of the vol_mount_uri specification
ConfiguredBinds == {"/data:/data", "/var/run/iotedge/mgmt.sock:/var/run/iotedge/mgmt.sock"}

BindLists == UNION { [1..n -> ConfiguredBinds] : n \in 0..MaxBinds }

HostConfigs ==
    [binds : {None} \cup {Some(b) : b \in BindLists}, privileged : BOOLEAN]

CreateOptions ==
    [host_config : {None} \cup {Some(h) : h \in HostConfigs}]

ConnectUris ==
    {UnixUrl("/var/run/iotedge/mgmt.sock"), UnixUrl("/var/run/iotedge/workload.sock"),
     HttpUrl("localhost:8080")}

MountArgs ==
    [create_options : CreateOptions, management_uri : ConnectUris, workload_uri : ConnectUris]

MountIdle ==
    /\ mountPc = "idle"
    /\ mountArgs = [create_options |-> [host_config |-> None],
                    management_uri |-> HttpUrl("localhost:8080"),
                    workload_uri   |-> HttpUrl("localhost:8080")]
    /\ config = mountArgs.create_options

InitMountArgs ==
    /\ mountPc = "ready"
    /\ mountArgs \in MountArgs
    /\ config = mountArgs.create_options

\* the call of vol_mount_uri made by start_runtime (lines 457-464), with the
\* uris in the order management, workload; clone_create_options()? may fail
VolMountUriCall ==
    /\ mountPc = "ready"
    /\ \/ /\ mountPc' = "done"
          /\ config' = vol_mount_uri(config, <<mountArgs.management_uri, mountArgs.workload_uri>>)
       \/ /\ mountPc' = "failed"
          /\ UNCHANGED config
    /\ UNCHANGED mountArgs

-----------------------------------------------------------------------------
(* The specifications *)

BootIdle ==
    /\ pc = "off" /\ boots = 0 /\ settings = NoSettings /\ signal = "pending"
    /\ result = "none" /\ provResult = NoResult /\ registration = "none"
    /\ pre = None /\ guardResult = "none" /\ lastGuard = None
    /\ removeAllCalls = 0 /\ createKeyCalls = 0 /\ fsWrites = 0
    /\ rmOutcome = "none" /\ keyOutcome = "none"
    /\ mgmt = "none" /\ work = "none" /\ rt = "none"
    /\ mgmtTx = "none" /\ workTx = "none" /\ runtTx = "none"
    /\ shutdownTask = "none" /\ joinResult = "none"

\* the cache directory a first boot may find: missing, empty, or holding a state
\* file (a fingerprint or anything else) and perhaps a provisioning backup
InitialStateFiles ==
    {NoFile, ""} \cup {Fingerprint(s) : s \in SampleSettings}

InitCache ==
    \/ /\ dir = FALSE
       /\ files = [f \in CacheFiles |-> NoFile]
    \/ /\ dir = TRUE
       /\ \E st \in InitialStateFiles, bk \in {NoFile} \cup ProvisioningResults :
             files = [f \in CacheFiles |->
                         IF f = EDGE_SETTINGS_STATE_FILENAME THEN st ELSE bk]

CacheIdle ==
    /\ dir = FALSE
    /\ files = [f \in CacheFiles |-> NoFile]

\* ---- the boot pipeline
Init == EnvIdle /\ RouterIdle /\ BuilderIdle /\ MountIdle /\ BootIdle /\ InitCache

StartBoot == \E s \in SampleSettings : Boot(s)

Next ==
    \/ StartBoot
    \/ SignalFires
    \/ InitDockerRuntime
    \/ CheckSettingsState
    \/ RemoveAll
    \/ RemoveDirAll
    \/ CreateDir
    \/ CreateKey
    \/ CreateFile
    \/ WriteState
    \/ ManualProvision
    \/ DpsProvision
    \/ StartManagement
    \/ StartWorkload
    \/ StartRuntime
    \/ SpawnShutdown
    \/ ShutdownTask
    \/ WatchdogStarts
    \/ AgentCrashes
    \/ AgentRestarted
    \/ WatchdogStops
    \/ WatchdogFails
    \/ ManagementStops
    \/ ManagementFails
    \/ WorkloadStops
    \/ WorkloadFails

Spec == Init /\ [][Next]_vars

\* ---- start_api, from its call by run_until (lines 218, 234) to its return,
\* with the scheduling of the reactor: straight-line code runs on, and core.run
\* polls the spawned listener and each joined arm whenever it is ready
ApiEntry ==
    /\ pc = "start_management" /\ boots = 1
    /\ settings \in SampleSettings
    /\ signal = "pending" /\ result = "none"
    /\ dir = TRUE
    /\ guardResult = "ok" /\ lastGuard = Some([settings |-> settings, ok |-> TRUE])
    /\ removeAllCalls = 0 /\ createKeyCalls = 0 /\ fsWrites = 0
    /\ rmOutcome = "none" /\ keyOutcome = "none"
    /\ provResult \in ProvisioningResults
    /\ \E bk \in {NoFile} \cup ProvisioningResults :
          LET found == [f \in CacheFiles |->
                           IF f = EDGE_SETTINGS_STATE_FILENAME
                           THEN Fingerprint(settings) ELSE bk]
          IN  /\ pre = Some([dir |-> TRUE, files |-> found, last |-> None])
              /\ \/ /\ settings.source = "manual"
                    /\ registration = "none"
                    /\ files = found
                 \/ /\ settings.source = "dps"
                    /\ registration = "ok"
                    /\ files = [found EXCEPT ![EDGE_PROVISIONING_BACKUP_FILENAME] = provResult]
                 \/ /\ settings.source = "dps"
                    /\ registration = "err"
                    /\ bk = provResult
                    /\ files = found
    /\ mgmt = "none" /\ work = "none" /\ rt = "none"
    /\ mgmtTx = "none" /\ workTx = "none" /\ runtTx = "none"
    /\ shutdownTask = "none" /\ joinResult = "none"

InitApi == EnvIdle /\ RouterIdle /\ BuilderIdle /\ MountIdle /\ ApiEntry

NextApi ==
    \/ SignalFires
    \/ StartManagement
    \/ StartWorkload
    \/ StartRuntime
    \/ SpawnShutdown
    \/ ShutdownTask
    \/ WatchdogStarts
    \/ AgentCrashes
    \/ AgentRestarted
    \/ WatchdogStops
    \/ WatchdogFails
    \/ ManagementStops
    \/ ManagementFails
    \/ WorkloadStops
    \/ WorkloadFails

FairApi ==
    /\ WF_vars(StartManagement) /\ WF_vars(StartWorkload) /\ WF_vars(StartRuntime)
    /\ WF_vars(SpawnShutdown)
    /\ WF_vars(ShutdownTask)
    /\ WF_vars(WatchdogStarts)
    /\ WF_vars(WatchdogStops)
    /\ WF_vars(ManagementStops)
    /\ WF_vars(WorkloadStops)

SpecApi == InitApi /\ [][NextApi]_vars /\ FairApi

\* ---- build_env as a pure function of its arguments
InitEnv == InitEnvArgs /\ RouterIdle /\ BuilderIdle /\ MountIdle /\ BootIdle /\ CacheIdle

BuildEnv == BuildEnvCall /\ UNCHANGED <<routerVars, builderVars, mountVars, bootVars>>

NextEnv == BuildEnv

SpecEnv == InitEnv /\ [][NextEnv]_vars

\* ---- one router service serving requests
InitRouter == EnvIdle /\ RouterIdle /\ BuilderIdle /\ MountIdle /\ BootIdle /\ CacheIdle

NextRouter ==
    \/ ServeRequest
    \/ ResolveHandler
    \/ ReplyTaken

SpecRouter == InitRouter /\ [][NextRouter]_vars

\* ---- one route builder, from Builder construction to finish
InitBuilder == EnvIdle /\ RouterIdle /\ InitBuilderState /\ MountIdle /\ BootIdle /\ CacheIdle

NextBuilder ==
    \/ BuilderGet
    \/ BuilderPost
    \/ BuilderPut
    \/ BuilderDelete
    \/ BuilderFinish

SpecBuilder == InitBuilder /\ [][NextBuilder]_vars

\* ---- vol_mount_uri as a function of the create options and the connect uris
InitMount == EnvIdle /\ RouterIdle /\ BuilderIdle /\ InitMountArgs /\ BootIdle /\ CacheIdle

VolMountUri == VolMountUriCall /\ UNCHANGED <<envVars, routerVars, builderVars, bootVars>>

NextMount == VolMountUri

SpecMount == InitMount /\ [][NextMount]_vars

-----------------------------------------------------------------------------
(* Properties *)

StateFile == EDGE_SETTINGS_STATE_FILENAME

Cancelled(tx) == tx \in {"sent", "send_failed"}

\* C1: shutdown fan-out of start_api. The watchdog's cancellation is sent only
\* once the external signal has fired; the launchers' cancellations are sent
\* only after the watchdog future has completed successfully (so never before
\* the watchdog's own cancellation); a launcher completes only after that; and
\* the join resolves Ok, and run_until returns Ok, exactly when the three arms
\* have completed successfully.
C1_ShutdownFanOut ==
    /\ Cancelled(runtTx) => signal = "fired"
    /\ (Cancelled(mgmtTx) \/ Cancelled(workTx)) => (rt = "ok" /\ runtTx = "sent")
    /\ mgmt = "ok" => (mgmtTx = "sent" /\ rt = "ok")
    /\ work = "ok" => (workTx = "sent" /\ rt = "ok")
    /\ joinResult = "ok" <=> (mgmt = "ok" /\ work = "ok" /\ rt = "ok")
    /\ joinResult = "ok" => (result = "ok" /\ pc = "off" /\ signal = "fired")

\* C1 witness: a boot in which the signal fired and the whole fan-out ran
C1_FanOutCompleted ==
    /\ signal = "fired" /\ runtTx = "sent"
    /\ mgmtTx = "sent" /\ workTx = "sent"
    /\ joinResult = "ok" /\ result = "ok"

C3_ApiVersionAlwaysCurrent ==
    envPc = "done" =>
        /\ API_VERSION_KEY \in DOMAIN env
        /\ env[API_VERSION_KEY] = "2018-12-30"
        /\ VersionFromStr(env[API_VERSION_KEY]) = Ok(API_VERSION)

\* C3 witness: the user env set IOTEDGE_APIVERSION and the daemon's value won
C3_UserApiVersionOverridden ==
    /\ envPc = "done"
    /\ API_VERSION_KEY \in DOMAIN envArgs.spec_env
    /\ envArgs.spec_env[API_VERSION_KEY] = "x"
    /\ env[API_VERSION_KEY] = "2018-12-30"

C5_HandlerErrorIsA500Response ==
    (rpc = "replied" /\ handlerResult.some /\ ~handlerResult.val.ok) =>
        (reply.val.ok /\ reply.val.val.status = 500)

\* the request has no api-version parameter, or the value of its (first)
\* api-version parameter is not an enumerated version
Unversioned(r) ==
    \/ ~r.query.some
    \/ \A i \in DOMAIN r.query.val : r.query.val[i].key # "api-version"
    \/ \E i \in DOMAIN r.query.val :
          /\ r.query.val[i].key = "api-version"
          /\ \A j \in 1..(i - 1) : r.query.val[j].key # "api-version"
          /\ r.query.val[i].value \notin {"2018-06-28", "2018-12-30"}

\* C6: a request without an api-version parameter, or whose api-version value is
\* not an enumerated version, is answered 400 with an InvalidApiVersion body,
\* and neither the recognizer nor a handler is invoked for it.
C6_InvalidApiVersionIs400 ==
    (rpc # "idle" /\ Unversioned(req)) =>
        /\ rpc = "replied"
        /\ reply = Some(Ok([status |-> 400, body |-> "InvalidApiVersion"]))
        /\ recognizeCalls = 0
        /\ handlerCalls = 0

\* C6 witness: a request for a registered route with an unknown version got 400
C6_UnknownVersionRejected ==
    /\ rpc = "replied"
    /\ req.method = "GET" /\ req.path = "/modules/foo"
    /\ req.query = Some(<<[key |-> "api-version", value |-> "2017-01-01"]>>)
    /\ reply.val.ok /\ reply.val.val.status = 400

\* the guard of this boot ran after a successful guard run with settings `was`
GuardRanAfterOk(was) ==
    /\ pre.some
    /\ pre.val.last = Some([settings |-> was, ok |-> TRUE])

\* C7: whenever check_settings_state returned Ok, the state file exists and
\* holds base64(SHA-256(JSON(settings))), whatever the cache held before.
C7_StateFileIsFingerprint ==
    guardResult = "ok" =>
        /\ dir
        /\ files[StateFile] = Base64(Sha256(SettingsJson(settings)))

\* C7 witness: a guard run that found another fingerprint and returned Ok
C7_ReplacedOtherFingerprint ==
    /\ guardResult = "ok"
    /\ pre.val.dir
    /\ pre.val.files[StateFile] \in {Fingerprint(s) : s \in SampleSettings \ {settings}}
    /\ removeAllCalls = 1

\* C8: a guard run that follows a successful run with the same settings returns
\* Ok, changes nothing in the cache directory and calls neither remove_all nor
\* create_key.
C8_GuardFixedPoint ==
    (pre.some /\ GuardRanAfterOk(settings)) =>
        /\ guardResult = "ok"
        /\ removeAllCalls = 0
        /\ createKeyCalls = 0
        /\ fsWrites = 0
        /\ dir = pre.val.dir
        /\ files[StateFile] = pre.val.files[StateFile]
        /\ pc = "provision" => files = pre.val.files

\* C8 witness: the second of two guard runs with the same settings has returned
C8_SecondRunSameSettings ==
    /\ boots = 2
    /\ pre.some /\ GuardRanAfterOk(settings)
    /\ guardResult = "ok"
    /\ pc = "provision"

\* C9: a successful guard run with settings B that follows a successful run
\* with settings A # B leaves the state file equal to fingerprint(B), has called
\* remove_all exactly once, and has removed every file the cache held before.
C9_DriftRemovesOldCache ==
    (/\ pc = "provision"
     /\ guardResult = "ok"
     /\ pre.some
     /\ \E a \in SampleSettings \ {settings} : GuardRanAfterOk(a)) =>
        /\ files[StateFile] = Fingerprint(settings)
        /\ removeAllCalls = 1
        /\ \A f \in CacheFiles \ {StateFile} : files[f] = NoFile

\* C10: during reconfigure, a removal of the cache directory that fails for a
\* reason other than the directory being absent is fatal: the guard does not
\* return Ok and the new state file is not written.
C10_RemovalFailureIsFatal ==
    rmOutcome = "failed" =>
        /\ guardResult # "ok"
        /\ files[StateFile] # Fingerprint(settings)

\* a launcher, its channel, the watchdog or the join of this boot exists
ApiStarted ==
    \/ mgmt # "none" \/ work # "none" \/ rt # "none"
    \/ mgmtTx # "none" \/ workTx # "none" \/ runtTx # "none"
    \/ shutdownTask # "none" \/ joinResult # "none"

\* C11: in every boot, the launchers (and with them every API handler) exist
\* only after manual_provision or dps_provision has returned its result:
\* start_api is entered, and a listener is bound, only with a provisioning
\* result in hand.
C11_ProvisionedBeforeLaunchers ==
    (pc \in StartApiPcs \/ ApiStarted) => provResult \in ProvisioningResults

\* C11 witness: both listeners are bound, after a manual provisioning
C11_ListenersBoundAfterProvisioning ==
    /\ mgmt = "bound" /\ work = "bound"
    /\ settings.source = "manual"
    /\ provResult \in ProvisioningResults

\* C12: as soon as one of the three joined arms has completed with an error,
\* the join has ended with an error and start_api and run_until have returned
\* it, whatever the state of the other two arms; after that no arm makes a
\* further step.
C12_ArmErrorAbortsJoin ==
    /\ [](("err" \in {mgmt, work, rt}) =>
             (joinResult = "err" /\ result = "err" /\ pc = "off"))
    /\ [][(joinResult = "err" /\ joinResult' = "err") => UNCHANGED <<mgmt, work, rt>>]_vars

\* C12 witness: the management server failed while the watchdog and the
\* workload server were still running, and the join ended with the error
C12_ManagementFailedOthersRunning ==
    /\ mgmt = "err" /\ work = "bound" /\ rt = "running"
    /\ joinResult = "err" /\ result = "err" /\ pc = "off"

\* the positions of check_settings_state and reconfigure
GuardPcs == {"check_settings", "remove_all", "remove_dir_all", "create_dir", "create_key",
             "create_file", "write_state"}

\* the guard of this boot has not been entered
GuardUntouched ==
    /\ ~pre.some /\ guardResult = "none"
    /\ removeAllCalls = 0 /\ createKeyCalls = 0 /\ fsWrites = 0

\* C13: the boot runs container-runtime init, the settings cache guard,
\* provisioning and the start of the arms in this order, each stage entered
\* only after the one before it succeeded; an error at any stage ends the boot
\* with that error and nothing of a later stage has been done: a failed init
\* leaves the guard untouched, a failed guard performs no provisioning, a failed
\* provisioning starts no launcher and no watchdog, a failed launcher start
\* starts none of the arms after it.
C13_BootStagesInOrder ==
    /\ pc = "init_runtime" =>
          (GuardUntouched /\ provResult = NoResult /\ registration = "none" /\ ~ApiStarted)
    /\ pc \in GuardPcs =>
          (guardResult = "none" /\ provResult = NoResult /\ registration = "none"
           /\ ~ApiStarted)
    /\ pc = "provision" =>
          (guardResult = "ok" /\ provResult = NoResult /\ registration = "none"
           /\ ~ApiStarted)
    /\ pc \in StartApiPcs => (guardResult = "ok" /\ provResult \in ProvisioningResults)
    /\ result = "err" => pc = "off"
    /\ (result = "err" /\ ~pre.some) =>
          (GuardUntouched /\ provResult = NoResult /\ registration = "none" /\ ~ApiStarted)
    /\ guardResult = "err" =>
          (result = "err" /\ provResult = NoResult /\ registration = "none" /\ ~ApiStarted)
    /\ (result = "err" /\ provResult = NoResult) => ~ApiStarted
    /\ (result = "err" /\ mgmt = "none") => (work = "none" /\ rt = "none")
    /\ (result = "err" /\ work = "none") => (rt = "none" /\ shutdownTask = "none")
    /\ (result = "err" /\ rt = "none") => (shutdownTask = "none" /\ joinResult = "none")

\* C13 witness: the guard succeeded, manual_provision failed, and the boot
\* ended with no launcher and no watchdog
C13_ProvisioningFailedNothingStarted ==
    /\ result = "err" /\ pc = "off"
    /\ guardResult = "ok"
    /\ settings.source = "manual" /\ provResult = NoResult
    /\ mgmt = "none" /\ work = "none" /\ rt = "none"

BackupFile == EDGE_PROVISIONING_BACKUP_FILENAME

\* C14: in registration-service provisioning, when the registration call has
\* failed and the backup file holds a valid result, the ProvisioningResult
\* returned is the content of the backup file; when the registration has
\* succeeded and its result was returned, the backup file holds that result.
C14_DpsBackupFallback ==
    /\ (registration = "err" /\ dir /\ ValidBackup(files[BackupFile])) =>
          provResult = files[BackupFile]
    /\ (registration = "ok" /\ provResult # NoResult) =>
          (dir /\ files[BackupFile] = provResult)
    /\ (settings.source = "dps" /\ provResult # NoResult) => registration \in {"ok", "err"}

\* C14 witness: a second boot whose registration failed returned the result
\* it found in the backup file
C14_RestoredFromEarlierBoot ==
    /\ boots = 2
    /\ registration = "err"
    /\ pre.some /\ pre.val.dir /\ pre.val.files[BackupFile] = "hub2/dev1"
    /\ provResult = "hub2/dev1"
    /\ pc = "start_management"

\* the value of the first api-version parameter of the request being served
FoundVersion == IF req.query.some THEN FindApiVersion(req.query.val) ELSE None

\* C15: for every Version v, parsing the rendering of v yields v, and parsing
\* any other string than "2018-06-28" and "2018-12-30" fails; in the router,
\* the api-version value of a request parses exactly when it is one of these
\* two strings, and the version handed to the recognizer renders back to it.
C15_VersionRoundTrip ==
    /\ \A v \in Version : VersionFromStr(VersionToString(v)) = Ok(v)
    /\ \A s \in QueryValues \cup RouteVersions :
          s \notin {"2018-06-28", "2018-12-30"} => ~VersionFromStr(s).ok
    /\ (rpc # "idle" /\ FoundVersion.some) =>
          /\ recognizeCalls = 1 <=> FoundVersion.val \in {"2018-06-28", "2018-12-30"}
          /\ recognizeCalls = 1 =>
                /\ VersionToString(lastRecognize.val.version) = FoundVersion.val
                /\ VersionFromStr(VersionToString(lastRecognize.val.version))
                      = Ok(lastRecognize.val.version)

\* C15 witness: a request carrying api-version=2018-06-28 was recognized under
\* Version2018_06_28
C15_OlderVersionParsed ==
    /\ rpc # "idle"
    /\ FoundVersion = Some("2018-06-28")
    /\ recognizeCalls = 1
    /\ lastRecognize.val.version = "Version2018_06_28"

\* C16: a get, post, put or delete call with a version string that is not an
\* enumerated API version ends in a build error reported to the caller, not in
\* a panic.
C16_UnknownVersionIsBuildError ==
    (lastRoute.some /\ ~VersionFromStr(lastRoute.val.version).ok) =>
        builderPc # "panicked"

\* the uris handed to vol_mount_uri, in call order
MountUris == <<mountArgs.management_uri, mountArgs.workload_uri>>

\* C17: after vol_mount_uri, the bind list of the agent's host configuration is
\* the list configured before, followed by exactly one bind "<path>:<path>" for
\* each of the management and workload uris whose scheme is unix and none for
\* a uri of another scheme; the rest of the host configuration is kept; and
\* when that list is empty the create options are left as they were.
C17_UnixUrisAreBindMounted ==
    mountPc = "done" =>
        LET old   == BindsOf(mountArgs.create_options)
            new   == BindsOf(config)
            unix  == {i \in DOMAIN MountUris : MountUris[i].scheme = "unix"}
            added == {i \in DOMAIN new : i > Len(old)}
        IN  /\ Len(new) = Len(old) + Cardinality(unix)
            /\ \A i \in DOMAIN old : new[i] = old[i]
            /\ \A i \in unix : \E j \in added :
                  new[j] = MountUris[i].path \o ":" \o MountUris[i].path
            /\ \A j \in added : \E i \in unix :
                  new[j] = MountUris[i].path \o ":" \o MountUris[i].path
            /\ new = << >> => config = mountArgs.create_options
            /\ (mountArgs.create_options.host_config.some /\ config.host_config.some) =>
                  config.host_config.val.privileged
                      = mountArgs.create_options.host_config.val.privileged

\* C17 witness: one configured bind, a unix management uri and an http workload
\* uri: the result holds the configured bind and the management socket's bind
C17_OneSocketMountedAfterConfigured ==
    /\ mountPc = "done"
    /\ BindsOf(mountArgs.create_options) = <<"/data:/data">>
    /\ mountArgs.management_uri.scheme = "unix"
    /\ mountArgs.workload_uri.scheme = "http"
    /\ BindsOf(config) =
          <<"/data:/data", "/var/run/iotedge/mgmt.sock:/var/run/iotedge/mgmt.sock">>

\* C18: every user-supplied entry whose key is not an injected key appears
\* unchanged in build_env's result, next to all ten injected keys, and the
\* result holds no other key.
C18_OtherUserEntriesKept ==
    envPc = "done" =>
        /\ \A k \in (DOMAIN envArgs.spec_env) \ InjectedKeys :
              k \in DOMAIN env /\ env[k] = envArgs.spec_env[k]
        /\ InjectedKeys \subseteq DOMAIN env
        /\ Cardinality(InjectedKeys) = 10
        /\ DOMAIN env = InjectedKeys \cup DOMAIN envArgs.spec_env

\* C18 witness: the user env holds the hub host name and EXTRA=1; the result
\* holds EXTRA=1 and eleven keys
C18_ExtraKept ==
    /\ envPc = "done"
    /\ DOMAIN envArgs.spec_env = {HOSTNAME_KEY, "EXTRA"}
    /\ envArgs.spec_env["EXTRA"] = "1"
    /\ env["EXTRA"] = "1"
    /\ Cardinality(DOMAIN env) = 11

\* C19: on drift, reconfigure calls remove_all, then removes the cache
\* directory, then recreates it, then calls create_key, then writes the state
\* file; when remove_all fails the guard returns the error with the directory
\* and its files exactly as they were and create_key not called.
C19_ReconfigureOrder ==
    /\ pc = "remove_all" =>
          (removeAllCalls = 0 /\ rmOutcome = "none" /\ createKeyCalls = 0 /\ fsWrites = 0)
    /\ pc = "remove_dir_all" =>
          (removeAllCalls = 1 /\ rmOutcome = "none" /\ createKeyCalls = 0 /\ fsWrites = 0)
    /\ pc = "create_dir" =>
          (removeAllCalls = 1 /\ rmOutcome # "none" /\ createKeyCalls = 0)
    /\ pc = "create_key" =>
          (removeAllCalls = 1 /\ rmOutcome # "none" /\ dir /\ createKeyCalls = 0
           /\ keyOutcome = "none")
    /\ pc \in {"create_file", "write_state"} =>
          (removeAllCalls = 1 /\ rmOutcome # "none" /\ dir /\ createKeyCalls = 1)
    /\ (guardResult = "ok" /\ pre.some /\ files[StateFile] # pre.val.files[StateFile]) =>
          (removeAllCalls = 1 /\ rmOutcome # "none" /\ createKeyCalls = 1)
    /\ (guardResult = "err" /\ rmOutcome = "none") =>
          /\ removeAllCalls = 1
          /\ createKeyCalls = 0
          /\ fsWrites = 0
          /\ dir = pre.val.dir
          /\ files = pre.val.files

\* C19 witness: remove_all failed on a cache that held a state file
C19_RemoveAllFailedCacheKept ==
    /\ guardResult = "err" /\ result = "err"
    /\ removeAllCalls = 1 /\ rmOutcome = "none"
    /\ pre.val.dir /\ pre.val.files[StateFile] # NoFile
    /\ files = pre.val.files

\* C20: a key-already-exists error of create_key does not end reconfigure: the
\* step that gets it goes on to create the state file with nothing else
\* changed, a later failure of the guard comes from creating or writing the
\* state file only, and a guard that returned Ok has written the new
\* fingerprint.
C20_KeyExistsIsSwallowed ==
    /\ [][(pc = "create_key" /\ keyOutcome' = "exists") =>
             (pc' = "create_file" /\ UNCHANGED <<result, guardResult, fsVars>>)]_vars
    /\ [][(keyOutcome = "exists" /\ guardResult # "err" /\ guardResult' = "err") =>
             pc \in {"create_file", "write_state"}]_vars
    /\ []((keyOutcome = "exists" /\ guardResult = "ok") =>
             (dir /\ files[StateFile] = Fingerprint(settings)))

\* C20 witness: create_key reported an existing key and the guard returned Ok
\* with the new fingerprint written
C20_ExistingKeyGuardOk ==
    /\ keyOutcome = "exists"
    /\ guardResult = "ok" /\ pc = "provision"
    /\ files[StateFile] = Fingerprint(settings)

\* the positions of the api-version parameters in the query of the request
ApiVersionAt ==
    IF req.query.some
    THEN {i \in DOMAIN req.query.val : req.query.val[i].key = "api-version"}
    ELSE {}

\* the position of the first api-version parameter (when there is one)
FirstApiVersionAt == CHOOSE i \in ApiVersionAt : \A j \in ApiVersionAt : i <= j

\* the version a canonical dashed-date string names, by the version table of
\* the specification
VersionNamed(s) ==
    CASE s = "2018-06-28" -> "Version2018_06_28"
      [] s = "2018-12-30" -> "Version2018_12_30"

\* C21: for a request whose api-version is valid, the recognizer is called
\* exactly once, with the request's method, the parsed version and the path;
\* when it returns a (handler, params) pair that handler is invoked exactly once
\* with those params (and the reply waits for it); when it returns a status
\* code the reply is that status with an empty body and no handler is invoked.
C21_RecognizeOnceThenDispatch ==
    (/\ rpc # "idle"
     /\ ApiVersionAt # {}
     /\ req.query.val[FirstApiVersionAt].value \in {"2018-06-28", "2018-12-30"}) =>
        LET version == VersionNamed(req.query.val[FirstApiVersionAt].value)
            rec     == recognize(req.method, version, req.path)
        IN  /\ recognizeCalls = 1
            /\ lastRecognize =
                  Some([method |-> req.method, version |-> version, path |-> req.path])
            /\ rec.ok =>
                  /\ handlerCalls = 1
                  /\ lastParams = Some(rec.val)
                  /\ rpc = "pending" => reply = None
                  /\ rpc = "replied" => handlerResult.some
            /\ ~rec.ok =>
                  /\ handlerCalls = 0
                  /\ lastParams = None
                  /\ rpc = "replied"
                  /\ reply = Some(Ok([status |-> rec.err, body |-> ""]))

\* C21 witness: GET /other?api-version=2018-12-30 was answered 404 without a
\* handler call
C21_PathMissIs404 ==
    /\ rpc = "replied"
    /\ req = [method |-> "GET", path |-> "/other",
              query |-> Some(<<[key |-> "api-version", value |-> "2018-12-30"]>>)]
    /\ recognizeCalls = 1 /\ handlerCalls = 0
    /\ reply = Some(Ok([status |-> 404, body |-> ""]))

\* C22: when the query carries several api-version parameters the first one
\* decides: a first value that is not an enumerated version gives the 400
\* reply with no recognizer call, even when a later one is valid; a valid
\* first value is the version handed to the recognizer, whatever follows.
C22_FirstApiVersionDecides ==
    (rpc # "idle" /\ Cardinality(ApiVersionAt) >= 2) =>
        LET first == req.query.val[FirstApiVersionAt].value IN
        IF first \in {"2018-06-28", "2018-12-30"}
        THEN /\ recognizeCalls = 1
             /\ lastRecognize.val.version = VersionNamed(first)
        ELSE /\ recognizeCalls = 0
             /\ rpc = "replied"
             /\ reply.val.ok /\ reply.val.val.status = 400

\* C22 witness: api-version=2017-01-01&api-version=2018-12-30 was answered 400
C22_InvalidFirstValidSecond ==
    /\ rpc = "replied"
    /\ req.query = Some(<<[key |-> "api-version", value |-> "2017-01-01"],
                          [key |-> "api-version", value |-> "2018-12-30"]>>)
    /\ recognizeCalls = 0
    /\ reply.val.val.status = 400

\* the release date a canonical dashed-date string denotes, as yyyymmdd
ReleaseDate(s) ==
    CASE s = "2018-06-28" -> 20180628
      [] s = "2018-12-30" -> 20181230

\* C23: the order of the versions is the order of their release dates, it is
\* total, the current version constant is its greatest element, and the
\* IOTEDGE_APIVERSION value build_env injects is the latest release date.
C23_VersionsOrderedCurrentGreatest ==
    /\ \A a, b \in Version :
          partial_cmp(a, b) = "Less" <=>
              ReleaseDate(VersionToString(a)) < ReleaseDate(VersionToString(b))
    /\ \A a, b \in Version :
          a # b => (partial_cmp(a, b) = "Less" \/ partial_cmp(b, a) = "Less")
    /\ \A v \in Version : partial_cmp(v, API_VERSION) \in {"Less", "Equal"}
    /\ envPc = "done" =>
          \A v \in Version :
              ReleaseDate(VersionToString(v)) <= ReleaseDate(env[API_VERSION_KEY])

\* C23 witness: build_env injected 2018-12-30, the rendering of the version
\* that compares greater than Version2018_06_28
C23_LatestVersionInjected ==
    /\ envPc = "done"
    /\ API_VERSION_KEY \notin DOMAIN envArgs.spec_env
    /\ env[API_VERSION_KEY] = VersionToString(API_VERSION)
    /\ partial_cmp("Version2018_06_28", API_VERSION) = "Less"

\* the fingerprints of the settings the model draws
Fingerprints == {Fingerprint(s) : s \in SampleSettings}

\* C24: across boots in which reconfigure may fail at any step, the state file
\* comes to hold a fingerprint only by the last step of a reconfigure that
\* returns Ok, and then the fingerprint of that boot's settings; hence a guard
\* run that follows a failed guard run with the same settings finds no matching
\* state file, detects drift and calls remove_all.
C24_FingerprintOnlyAfterCompleteReconfigure ==
    /\ [][(files'[StateFile] # files[StateFile] /\ files'[StateFile] \in Fingerprints) =>
             (/\ pc = "write_state"
              /\ guardResult' = "ok"
              /\ files'[StateFile] = Fingerprint(settings))]_vars
    /\ []((pre.some /\ pre.val.last = Some([settings |-> settings, ok |-> FALSE])) =>
             (/\ ~(pre.val.dir /\ pre.val.files[StateFile] = Fingerprint(settings))
              /\ (pc = "remove_all" /\ removeAllCalls = 0) \/ removeAllCalls = 1))

\* C24 witness: the first boot's reconfigure failed while writing the state
\* file; the second boot, with the same settings, has called remove_all again
C24_RetryAfterFailedWrite ==
    /\ boots = 2
    /\ pre.some /\ pre.val.last = Some([settings |-> settings, ok |-> FALSE])
    /\ pre.val.dir /\ pre.val.files[StateFile] \in PartialContents
    /\ removeAllCalls = 1

\* C25: when the watchdog arm has completed with an error, neither launcher's
\* cancellation has been sent, and start_api has not waited for the launchers:
\* the join has ended and run_until has returned the error, with the launchers
\* in whatever state they were.
C25_WatchdogErrorSkipsCleanup ==
    rt = "err" =>
        /\ ~Cancelled(mgmtTx) /\ ~Cancelled(workTx)
        /\ mgmt # "ok" /\ work # "ok"
        /\ joinResult = "err" /\ result = "err" /\ pc = "off"

\* C25 witness: the watchdog failed while both launchers were serving
C25_WatchdogFailedLaunchersServing ==
    /\ rt = "err"
    /\ mgmt = "bound" /\ work = "bound"
    /\ mgmtTx = "dropped" /\ workTx = "dropped"
    /\ joinResult = "err" /\ result = "err"

C27_NoFallbackAfterReconfigure ==
    (removeAllCalls = 1 /\ guardResult = "ok" /\ settings.source = "dps") =>
        /\ pc = "provision" => files[BackupFile] = NoFile
        /\ registration = "err" => (provResult = NoResult /\ result = "err")

====
